---------------------------- MODULE Spec2Model ----------------------------
(* Model of the management commands of the store back office:              *)
(*   - Command._calculate_new_expiry (update_product_expiry.py), the       *)
(*     expiry string normalizer, as operators on sequences of characters;  *)
(*   - Command.handle (update_product_expiry.py), the batch driver;        *)
(*   - Command.handle (sync_invoice_prices.py), the invoice price sync.    *)
(* A Python str is a sequence of one-character strings. Two characters     *)
(* outside ASCII are written by their code points.                         *)
EXTENDS Integers, Sequences, FiniteSets, TLC

VARIABLES
  exp_value,     \* _calculate_new_expiry: the argument exp_value
  years_to_add,  \* the argument years_to_add; in handle, options['years']
  new_exp,       \* the value the call returned
  calc_pc,       \* "call" before the call, "return" after it
  runs,          \* how many earlier calls produced exp_value
  db,            \* Product.exp of every row, as committed
  tx_writes,     \* the rows written inside the open transaction
  txn,           \* "none", "open", "committed" or "rolled_back"
  batch_size,    \* options['batch_size']
  dry_run,       \* options['dry_run']
  fetched,       \* the rows of the queryset, as the iterator reads them
  product_exp,   \* product.exp of the model instance of each fetched row
  pending_updates,
  bulk_calls,    \* the object lists passed to Product.objects.bulk_update
  updated_count,
  skipped_count,
  unchanged_count,
  processed_count,
  handle_pc,     \* where Command.handle stands
  price,         \* sync_invoice_prices: invoice.product.price of each Invoice
  received,      \* Invoice.received of each row, as the transaction sees it
  received_before, \* Invoice.received of each row when the command started
  sync_batch_size, \* options['batch_size']
  sync_dry_run,    \* options['dry_run']
  filter_null_prices,
  total_invoices,
  sync_processed,  \* processed_count
  sync_updated,    \* updated_count
  sync_skipped,    \* skipped_count
  visits,          \* how many times the for loop took each Invoice
  stdout,          \* the 'Would update Invoice' lines written
  sync_bulk_calls, \* the lists passed to Invoice.objects.bulk_update
  sync_pc          \* where the command stands

calc_vars == <<exp_value, new_exp, calc_pc, runs>>

handle_vars ==
  <<db, tx_writes, txn, batch_size, dry_run, fetched, product_exp,
    pending_updates, bulk_calls, updated_count, skipped_count,
    unchanged_count, processed_count, handle_pc>>

sync_vars ==
  <<price, received, received_before, sync_batch_size, sync_dry_run,
    filter_null_prices, total_invoices, sync_processed, sync_updated,
    sync_skipped, visits, stdout, sync_bulk_calls, sync_pc>>

vars == <<calc_vars, years_to_add, handle_vars, sync_vars>>

-----------------------------------------------------------------------------
(* Characters and the str methods the code uses.                           *)

LowerLetters ==
  <<"a","b","c","d","e","f","g","h","i","j","k","l","m",
    "n","o","p","q","r","s","t","u","v","w","x","y","z">>

UpperLetters ==
  <<"A","B","C","D","E","F","G","H","I","J","K","L","M",
    "N","O","P","Q","R","S","T","U","V","W","X","Y","Z">>

AsciiDigits == <<"0","1","2","3","4","5","6","7","8","9">>

\* LATIN SMALL LETTER LONG S: [A-Za-z] matches it under re.IGNORECASE,
\* its lower() is itself and its upper() is "S".
LONG_S == "U+017F"

\* ARABIC-INDIC DIGIT THREE: \d matches it in a str pattern and int() reads 3.
ARABIC_THREE == "U+0663"

Range(f) == {f[i] : i \in DOMAIN f}

IndexOf(f, c) == CHOOSE i \in DOMAIN f : f[i] = c

Whitespace == {" ", "\t", "\n"}

IsDecimal(c) == (\E k \in DOMAIN AsciiDigits : AsciiDigits[k] = c) \/ c = ARABIC_THREE

\* the value int() gives one decimal character
DigitVal(c) == IF c = ARABIC_THREE THEN 3 ELSE IndexOf(AsciiDigits, c) - 1

\* str.lower() and str.upper() on one character
LowerChar(c) ==
  IF \E k \in DOMAIN UpperLetters : UpperLetters[k] = c
  THEN LowerLetters[IndexOf(UpperLetters, c)]
  ELSE c

UpperChar(c) ==
  IF \E k \in DOMAIN LowerLetters : LowerLetters[k] = c
  THEN UpperLetters[IndexOf(LowerLetters, c)]
  ELSE IF c = LONG_S THEN "S" ELSE c

lower(s) == [i \in 1..Len(s) |-> LowerChar(s[i])]

upper(s) == [i \in 1..Len(s) |-> UpperChar(s[i])]

RECURSIVE lstrip(_)
lstrip(s) ==
  IF s # <<>> /\ Head(s) \in Whitespace THEN lstrip(Tail(s)) ELSE s

RECURSIVE rstrip(_)
rstrip(s) ==
  IF s # <<>> /\ s[Len(s)] \in Whitespace
  THEN rstrip(SubSeq(s, 1, Len(s) - 1)) ELSE s

strip(s) == rstrip(lstrip(s))

\* int() of a non-empty string of decimal characters
RECURSIVE int(_)
int(s) ==
  IF s = <<>> THEN 0
  ELSE 10 * int(SubSeq(s, 1, Len(s) - 1)) + DigitVal(s[Len(s)])

RECURSIVE Decimal(_)
Decimal(n) ==
  IF n < 10 THEN <<AsciiDigits[n + 1]>>
  ELSE Decimal(n \div 10) \o <<AsciiDigits[(n % 10) + 1]>>

RECURSIVE ZeroFill(_, _)
ZeroFill(s, width) == IF Len(s) >= width THEN s ELSE ZeroFill(<<"0">> \o s, width)

\* f"{n:0<width>d}": the sign counts in the width
FormatD0(n, width) ==
  IF n < 0 THEN <<"-">> \o ZeroFill(Decimal(-n), width - 1)
  ELSE ZeroFill(Decimal(n), width)

-----------------------------------------------------------------------------
(* Optional[str]                                                           *)

None == [is_none |-> TRUE, str |-> <<>>]

Some(s) == [is_none |-> FALSE, str |-> s]

-----------------------------------------------------------------------------
(* The regular expressions of EXP_PATTERNS. Each is ^ group literal group $ *)
(* with two named groups of one character class and a repetition count.    *)

\* (?P<month_text>[A-Za-z]+)
MonthTextGroup ==
  [name |-> "month_text", class |-> "alpha", lo |-> 1, hi |-> 1, plus |-> TRUE]

\* (?P<month>\d{lo,hi})
MonthGroup(lo, hi) ==
  [name |-> "month", class |-> "digit", lo |-> lo, hi |-> hi, plus |-> FALSE]

\* YearGroup as (?P<year>\d{2,n})
YearGroup_UpTo(n) ==
  [name |-> "year", class |-> "digit", lo |-> 2, hi |-> n, plus |-> FALSE]

\* (?P<year>\d{n})
YearGroup(n) ==
  [name |-> "year", class |-> "digit", lo |-> n, hi |-> n, plus |-> FALSE]

\* one character against [A-Za-z] (with or without re.IGNORECASE) or \d
InClass(c, class, ignorecase) ==
  IF class = "alpha"
  THEN \/ (\E k \in DOMAIN LowerLetters : LowerLetters[k] = c)
       \/ (\E k \in DOMAIN UpperLetters : UpperLetters[k] = c)
       \/ (ignorecase /\ c = LONG_S)
  ELSE IsDecimal(c)

AllInClass(s, class, ignorecase) ==
  \A i \in 1..Len(s) : InClass(s[i], class, ignorecase)

\* the lengths the first group can take in a match of the whole of s
FirstLengths(re, s) ==
  {n \in re.first.lo..(IF re.first.plus THEN Len(s) ELSE re.first.hi) :
     LET rest == Len(s) - n - Len(re.lit) IN
       /\ rest >= re.second.lo
       /\ re.second.plus \/ rest <= re.second.hi
       /\ AllInClass(SubSeq(s, 1, n), re.first.class, re.ignorecase)
       /\ SubSeq(s, n + 1, n + Len(re.lit)) = re.lit
       /\ AllInClass(SubSeq(s, n + Len(re.lit) + 1, Len(s)),
                     re.second.class, re.ignorecase)}

\* pattern['regex'].match(s): whether it matched, and match.groupdict().
\* The first group is greedy.
ReMatch(re, s) ==
  LET ns == FirstLengths(re, s) IN
    IF ns = {} THEN [matched |-> FALSE, groupdict |-> <<>>]
    ELSE LET n == CHOOSE m \in ns : \A k \in ns : k <= m IN
      [matched |-> TRUE,
       groupdict |-> (re.first.name :> SubSeq(s, 1, n))
                  @@ (re.second.name :> SubSeq(s, n + Len(re.lit) + 1, Len(s)))]

-----------------------------------------------------------------------------
MONTH_MAP ==
  <<[key |-> <<"j","a","n">>, value |-> 1],
    [key |-> <<"j","a","n","u","a","r","y">>, value |-> 1],
    [key |-> <<"f","e","b">>, value |-> 2],
    [key |-> <<"f","e","b","r","u","a","r","y">>, value |-> 2],
    [key |-> <<"m","a","r">>, value |-> 3],
    [key |-> <<"m","a","r","c","h">>, value |-> 3],
    [key |-> <<"a","p","r">>, value |-> 4],
    [key |-> <<"a","p","r","i","l">>, value |-> 4],
    [key |-> <<"m","a","y">>, value |-> 5],
    [key |-> <<"j","u","n">>, value |-> 6],
    [key |-> <<"j","u","n","e">>, value |-> 6],
    [key |-> <<"j","u","l">>, value |-> 7],
    [key |-> <<"j","u","l","y">>, value |-> 7],
    [key |-> <<"a","u","g">>, value |-> 8],
    [key |-> <<"a","u","g","u","s","t">>, value |-> 8],
    [key |-> <<"s","e","p">>, value |-> 9],
    [key |-> <<"s","e","p","t">>, value |-> 9],
    [key |-> <<"s","e","p","t","e","m","b","e","r">>, value |-> 9],
    [key |-> <<"o","c","t">>, value |-> 10],
    [key |-> <<"o","c","t","o","b","e","r">>, value |-> 10],
    [key |-> <<"n","o","v">>, value |-> 11],
    [key |-> <<"n","o","v","e","m","b","e","r">>, value |-> 11],
    [key |-> <<"d","e","c">>, value |-> 12],
    [key |-> <<"d","e","c","e","m","b","e","r">>, value |-> 12]>>

\* MONTH_MAP.get(key): the month number, or 0 for None
MonthMapGet(key) ==
  IF \E i \in DOMAIN MONTH_MAP : MONTH_MAP[i].key = key
  THEN MONTH_MAP[CHOOSE i \in DOMAIN MONTH_MAP : MONTH_MAP[i].key = key].value
  ELSE 0

EXP_PATTERNS ==
  <<
    \* ^(?P<month_text>[A-Za-z]+)-(?P<year>\d{2})$, re.IGNORECASE
    [regex |-> [first |-> MonthTextGroup, lit |-> <<"-">>, second |-> YearGroup(2), ignorecase |-> TRUE],
     year_length |-> 2, separator |-> <<"-">>, month_first |-> TRUE, month_type |-> "text"],
    \* ^(?P<month_text>[A-Za-z]+)-(?P<year>\d{4})$, re.IGNORECASE
    [regex |-> [first |-> MonthTextGroup, lit |-> <<"-">>, second |-> YearGroup(4), ignorecase |-> TRUE],
     year_length |-> 4, separator |-> <<"-">>, month_first |-> TRUE, month_type |-> "text"],
    \* ^(?P<month_text>[A-Za-z]+)/(?P<year>\d{2})$, re.IGNORECASE
    [regex |-> [first |-> MonthTextGroup, lit |-> <<"/">>, second |-> YearGroup(2), ignorecase |-> TRUE],
     year_length |-> 2, separator |-> <<"/">>, month_first |-> TRUE, month_type |-> "text"],
    \* ^(?P<month_text>[A-Za-z]+)/(?P<year>\d{4})$, re.IGNORECASE
    [regex |-> [first |-> MonthTextGroup, lit |-> <<"/">>, second |-> YearGroup(4), ignorecase |-> TRUE],
     year_length |-> 4, separator |-> <<"/">>, month_first |-> TRUE, month_type |-> "text"],
    \* ^(?P<month>\d{1,2})/(?P<year>\d{2})$
    [regex |-> [first |-> MonthGroup(1, 2), lit |-> <<"/">>, second |-> YearGroup(2), ignorecase |-> FALSE],
     year_length |-> 2, separator |-> <<"/">>, month_first |-> TRUE, month_type |-> "numeric"],
    \* ^(?P<month>\d{1,2})-(?P<year>\d{2})$
    [regex |-> [first |-> MonthGroup(1, 2), lit |-> <<"-">>, second |-> YearGroup(2), ignorecase |-> FALSE],
     year_length |-> 2, separator |-> <<"-">>, month_first |-> TRUE, month_type |-> "numeric"],
    \* ^(?P<month>\d{1,2})/(?P<year>\d{4})$
    [regex |-> [first |-> MonthGroup(1, 2), lit |-> <<"/">>, second |-> YearGroup(4), ignorecase |-> FALSE],
     year_length |-> 4, separator |-> <<"/">>, month_first |-> TRUE, month_type |-> "numeric"],
    \* ^(?P<month>\d{1,2})-(?P<year>\d{4})$
    [regex |-> [first |-> MonthGroup(1, 2), lit |-> <<"-">>, second |-> YearGroup(4), ignorecase |-> FALSE],
     year_length |-> 4, separator |-> <<"-">>, month_first |-> TRUE, month_type |-> "numeric"],
    \* ^(?P<year>\d{4})/(?P<month>\d{1,2})$
    [regex |-> [first |-> YearGroup(4), lit |-> <<"/">>, second |-> MonthGroup(1, 2), ignorecase |-> FALSE],
     year_length |-> 4, separator |-> <<"/">>, month_first |-> FALSE, month_type |-> "numeric"],
    \* ^(?P<year>\d{4})-(?P<month>\d{1,2})$
    [regex |-> [first |-> YearGroup(4), lit |-> <<"-">>, second |-> MonthGroup(1, 2), ignorecase |-> FALSE],
     year_length |-> 4, separator |-> <<"-">>, month_first |-> FALSE, month_type |-> "numeric"],
    \* ^(?P<month>\d{2})(?P<year>\d{2})$
    [regex |-> [first |-> MonthGroup(2, 2), lit |-> <<>>, second |-> YearGroup(2), ignorecase |-> FALSE],
     year_length |-> 2, separator |-> <<>>, month_first |-> TRUE, month_type |-> "numeric"],
    \* ^(?P<month>\d{2})(?P<year>\d{4})$
    [regex |-> [first |-> MonthGroup(2, 2), lit |-> <<>>, second |-> YearGroup(4), ignorecase |-> FALSE],
     year_length |-> 4, separator |-> <<>>, month_first |-> TRUE, month_type |-> "numeric"]
  >>

-----------------------------------------------------------------------------
(* Command._calculate_new_expiry                                           *)

\* ResolveMonth with the test `month > 12` left out
ResolveMonth_NoUpperBound(pattern, groupdict) ==
  IF pattern.month_type = "text"
  THEN MonthMapGet(lower(groupdict["month_text"]))
  ELSE LET month == int(groupdict["month"]) IN
    IF month < 1 THEN 0 ELSE month

\* lines 327-355: the month the match resolves to, 0 when the rule is
\* rejected (`continue`)
ResolveMonth(pattern, groupdict) ==
  IF pattern.month_type = "text"
  THEN MonthMapGet(lower(groupdict["month_text"]))
  ELSE LET month == int(groupdict["month"]) IN
    IF month < 1 \/ month > 12 THEN 0 ELSE month

\* FormattedYear without `new_year %= 100`
FormattedYear_NoWrap(pattern, new_year) ==
  IF pattern.year_length = 2 THEN FormatD0(new_year, 2)
  ELSE FormatD0(new_year, 4)

\* FormattedYear reducing every year to the width of its field
FormattedYear_WrapAll(pattern, new_year) ==
  IF pattern.year_length = 2 THEN FormatD0(new_year % 100, 2)
  ELSE FormatD0(new_year % 10000, 4)

\* FormattedYear writing a 2-digit year without its leading zero
FormattedYear_Unpadded(pattern, new_year) ==
  IF pattern.year_length = 2 THEN FormatD0(new_year % 100, 1)
  ELSE FormatD0(new_year, 4)

\* lines 367-372: the year field of the output
FormattedYear(pattern, new_year) ==
  IF pattern.year_length = 2 THEN FormatD0(new_year % 100, 2)
  ELSE FormatD0(new_year, 4)

\* FormattedMonth returning the month word as it was written
FormattedMonth_KeepCase(pattern, groupdict, month) ==
  IF pattern.month_type = "text"
  THEN groupdict["month_text"]
  ELSE FormatD0(month, 2)

\* FormattedMonth with the number not zero-padded
FormattedMonth_Unpadded(pattern, groupdict, month) ==
  IF pattern.month_type = "text"
  THEN LET original_month_text == groupdict["month_text"] IN
    <<UpperChar(original_month_text[1])>> \o lower(Tail(original_month_text))
  ELSE Decimal(month)

\* lines 375-380: the month field of the output
FormattedMonth(pattern, groupdict, month) ==
  IF pattern.month_type = "text"
  THEN LET original_month_text == groupdict["month_text"] IN
    <<UpperChar(original_month_text[1])>> \o lower(Tail(original_month_text))
  ELSE FormatD0(month, 2)

\* Assemble with the month always first
Assemble_MonthFirst(pattern, formatted_month, formatted_year) ==
  formatted_month \o pattern.separator \o formatted_year

\* lines 382-392: the fields in the order and with the separator of the rule
Assemble(pattern, formatted_month, formatted_year) ==
  IF pattern.month_first
  THEN formatted_month \o pattern.separator \o formatted_year
  ELSE formatted_year \o pattern.separator \o formatted_month

\* the body of the loop for one pattern: None stands for `continue`
ApplyPattern(pattern, s, years) ==
  LET match == ReMatch(pattern.regex, s)
      month == ResolveMonth(pattern, match.groupdict)
      year == int(match.groupdict["year"])
      new_year == year + years
  IN
    IF ~match.matched THEN None
    ELSE IF month = 0 THEN None
    ELSE Some(Assemble(pattern,
                       FormattedMonth(pattern, match.groupdict, month),
                       FormattedYear(pattern, new_year)))

\* for pattern in patterns: the first pattern that returns a string
RECURSIVE TryPatterns(_, _, _)
TryPatterns(patterns, s, years) ==
  IF patterns = <<>> THEN None
  ELSE LET r == ApplyPattern(Head(patterns), s, years) IN
    IF r.is_none THEN TryPatterns(Tail(patterns), s, years) ELSE r

\* StripExpValue removing leading whitespace only
StripExpValue_LeftOnly(value) == lstrip(value)

\* exp_value.strip() of line 315
StripExpValue(value) == strip(value)

_calculate_new_expiry(value, years) ==
  IF value = <<>> THEN None
  ELSE LET s == StripExpValue(value) IN
    IF s = <<>> THEN None ELSE TryPatterns(EXP_PATTERNS, s, years)

-----------------------------------------------------------------------------
(* Bounds of the model                                                     *)

\* offsets range over -MaxOffset..MaxOffset
MaxOffset == 3

\* the first CaseBits letters of a month word take every upper/lower case
\* combination, the remaining letters are all lower or all upper case
CaseBits == 1

\* runs of the command over its own output
MaxReruns == 1

\* whitespace characters added on each side of an input
MaxPad == 1

-----------------------------------------------------------------------------
(* Inputs of _calculate_new_expiry                                         *)

MonthNames == {MONTH_MAP[i].key : i \in DOMAIN MONTH_MAP}

\* letter sequences that are no key of MONTH_MAP
OtherWords ==
  {<<"a","u","g","u">>, <<"x","y","z">>, <<"a","u","g","u",LONG_S,"t">>}

CaseVariant(word, ups, tail_upper) ==
  [i \in 1..Len(word) |->
     IF i \in ups \/ (i > CaseBits /\ tail_upper)
     THEN UpperChar(word[i]) ELSE word[i]]

CaseVariants(word) ==
  {CaseVariant(word, ups, t) : ups \in SUBSET (1..CaseBits), t \in BOOLEAN}

TextMonthTokens == UNION {CaseVariants(w) : w \in MonthNames \cup OtherWords}

NumericMonthTokens ==
  {<<"8">>, <<"0","8">>, <<"1","2">>, <<"0">>, <<"0","0">>, <<"1","3">>,
   <<"0",ARABIC_THREE>>, <<"0","0","8">>}

YearTokens ==
  {<<"2","9">>, <<"9","9">>, <<"0","0">>, <<"2",ARABIC_THREE>>,
   <<"2","0","2","9">>, <<"9","9","9","9">>, <<"0","0","0","0">>,
   <<"2","0","2">>, <<"2","0","2","9","9">>}

Separators == {<<"-">>, <<"/">>, <<>>, <<".">>}

RECURSIVE Repeat(_, _)
Repeat(c, n) == IF n = 0 THEN <<>> ELSE <<c>> \o Repeat(c, n - 1)

Pads == {Repeat(c, n) : c \in Whitespace, n \in 0..MaxPad}

\* the years that follow a month word
TextYearTokens ==
  {<<"2","9">>, <<"9","9">>, <<"2","0","2","9">>, <<"9","9","9","9">>}

MonthFirstInputs ==
  {m \o sep \o y :
     m \in TextMonthTokens, sep \in {<<"-">>, <<"/">>, <<>>}, y \in TextYearTokens}
  \cup
  {m \o sep \o y : m \in NumericMonthTokens, sep \in Separators, y \in YearTokens}

YearFirstInputs ==
  {y \o sep \o m :
     m \in NumericMonthTokens \cup CaseVariants(<<"a","u","g">>),
     sep \in Separators, y \in YearTokens}

PaddedInputs ==
  {l \o m \o sep \o <<"2","9">> \o r :
     l \in Pads, r \in Pads, m \in {<<"0","8">>, <<"A","u","g">>, <<"1","3">>},
     sep \in {<<"/">>, <<" ">>}}

Inputs == MonthFirstInputs \cup YearFirstInputs \cup PaddedInputs \cup Pads

Offsets == (0 - MaxOffset)..MaxOffset

-----------------------------------------------------------------------------
(* Calls of _calculate_new_expiry. A value the command wrote is the input *)
(* of the next run of the command over the same record.                   *)

\* Command.handle is not running
HandleIdle ==
  /\ db = <<>>
  /\ tx_writes = <<>>
  /\ txn = "none"
  /\ batch_size = 0
  /\ dry_run = FALSE
  /\ fetched = <<>>
  /\ product_exp = <<>>
  /\ pending_updates = <<>>
  /\ bulk_calls = <<>>
  /\ updated_count = 0
  /\ skipped_count = 0
  /\ unchanged_count = 0
  /\ processed_count = 0
  /\ handle_pc = "idle"

\* sync_invoice_prices is not running
SyncIdle ==
  /\ price = <<>>
  /\ received = <<>>
  /\ received_before = <<>>
  /\ sync_batch_size = 0
  /\ sync_dry_run = FALSE
  /\ filter_null_prices = FALSE
  /\ total_invoices = 0
  /\ sync_processed = 0
  /\ sync_updated = 0
  /\ sync_skipped = 0
  /\ visits = <<>>
  /\ stdout = <<>>
  /\ sync_bulk_calls = <<>>
  /\ sync_pc = "idle"

CalcInit ==
  /\ exp_value \in Inputs
  /\ years_to_add \in Offsets
  /\ new_exp = None
  /\ calc_pc = "call"
  /\ runs = 0
  /\ HandleIdle
  /\ SyncIdle

Calculate ==
  /\ calc_pc = "call"
  /\ new_exp' = _calculate_new_expiry(exp_value, years_to_add)
  /\ calc_pc' = "return"
  /\ UNCHANGED <<exp_value, years_to_add, runs, handle_vars, sync_vars>>

\* the function is given a string it returned: the command stored it (it
\* runs with --years > 0 only, lines 175-176) and a later run reads it, or
\* the caller asks with offset 0 whether the string is in its final form
Rerun ==
  /\ calc_pc = "return"
  /\ ~new_exp.is_none
  /\ years_to_add >= 0
  /\ runs < MaxReruns
  /\ runs' = runs + 1
  /\ exp_value' = new_exp.str
  /\ years_to_add' \in 0..MaxOffset
  /\ new_exp' = None
  /\ calc_pc' = "call"
  /\ UNCHANGED <<handle_vars, sync_vars>>

CalcNext == Calculate \/ Rerun

SpecCalc == CalcInit /\ [][CalcNext]_vars

-----------------------------------------------------------------------------
(* Command.handle of update_product_expiry. The --debug branch (lines      *)
(* 194-219) only prints and returns before the loop; it is left out, as    *)
(* are the samples kept for printing.                                      *)

\* rows of the Product table
NumProducts == 3

\* --batch-size ranges over 0..MaxBatch
MaxBatch == 2

\* --years: 0 is refused, 3 is the default, 100 leaves a 2-digit year as it is
YearsOptions == {0, 3, 100}

\* Product.exp: NULL (None), '' and strings of each kind
ExpFieldValues ==
  {None, Some(<<>>),
   Some(<<"8","/","2","9"," ">>),
   Some(<<"A","u","g","-","9","9"," ">>),
   Some(<<"n","/","a">>)}

\* lines 182-186: filter(~Q(exp__isnull=True)).exclude(exp__exact='')
\* .order_by('pk'), as a list of rows
RECURSIVE QuerySetFrom(_, _)
QuerySetFrom(table, pk) ==
  IF pk > Len(table) THEN <<>>
  ELSE IF table[pk].is_none \/ table[pk].str = <<>>
       THEN QuerySetFrom(table, pk + 1)
       ELSE <<[pk |-> pk, exp |-> table[pk].str]>> \o QuerySetFrom(table, pk + 1)

QuerySet(table) == QuerySetFrom(table, 1)

\* Outcome comparing the new string with the field as stored, not stripped
Outcome_Unstripped(exp, years) ==
  LET original_exp == strip(exp)
      new == _calculate_new_expiry(original_exp, years)
  IN
    IF new.is_none THEN [kind |-> "skipped", new_exp |-> original_exp]
    ELSE IF new.str = exp THEN [kind |-> "unchanged", new_exp |-> new.str]
    ELSE [kind |-> "updated", new_exp |-> new.str]

\* lines 242-255: what becomes of a product whose exp attribute is exp
Outcome(exp, years) ==
  LET original_exp == strip(exp)
      new == _calculate_new_expiry(original_exp, years)
  IN
    IF new.is_none THEN [kind |-> "skipped", new_exp |-> original_exp]
    ELSE IF new.str = original_exp THEN [kind |-> "unchanged", new_exp |-> new.str]
    ELSE [kind |-> "updated", new_exp |-> new.str]

\* Stages without the test of dry_run
Stages_Always(dry) == TRUE

\* line 259: an updated product is assigned and staged unless --dry-run
Stages(dry) == ~dry

\* BatchFull flushing one record late
BatchFull_Late(pending, size) == Len(pending) > size

\* line 263: len(pending_updates) >= batch_size
BatchFull(pending, size) == Len(pending) >= size

\* Product.objects.bulk_update(objs, ['exp']) inside the transaction
BulkUpdate(writes, objs) ==
  [pk \in DOMAIN writes \cup {objs[i].pk : i \in DOMAIN objs} |->
     IF \E i \in DOMAIN objs : objs[i].pk = pk
     THEN objs[CHOOSE i \in DOMAIN objs : objs[i].pk = pk].exp
     ELSE writes[pk]]

\* AtomicExit keeping the writes made before an exception
AtomicExit_NoRollback(table, writes, raised, rollback) ==
  IF rollback THEN table
  ELSE [pk \in DOMAIN table |->
          IF pk \in DOMAIN writes THEN Some(writes[pk]) ELSE table[pk]]

\* leaving `with transaction.atomic()` (line 239): the writes are committed
\* unless an exception leaves the block or set_rollback(True) was called
AtomicExit(table, writes, raised, rollback) ==
  IF raised \/ rollback THEN table
  ELSE [pk \in DOMAIN table |->
          IF pk \in DOMAIN writes THEN Some(writes[pk]) ELSE table[pk]]

HandleInit ==
  /\ db \in [1..NumProducts -> ExpFieldValues]
  /\ years_to_add \in YearsOptions
  /\ batch_size \in 0..MaxBatch
  /\ dry_run \in BOOLEAN
  /\ tx_writes = <<>>
  /\ txn = "none"
  /\ fetched = <<>>
  /\ product_exp = <<>>
  /\ pending_updates = <<>>
  /\ bulk_calls = <<>>
  /\ updated_count = 0
  /\ skipped_count = 0
  /\ unchanged_count = 0
  /\ processed_count = 0
  /\ handle_pc = "start"
  /\ exp_value = <<>>
  /\ new_exp = None
  /\ calc_pc = "idle"
  /\ runs = 0
  /\ SyncIdle

\* lines 175-180: raise CommandError
RejectOptions ==
  /\ handle_pc = "start"
  /\ years_to_add <= 0 \/ batch_size <= 0
  /\ handle_pc' = "command_error"
  /\ UNCHANGED <<calc_vars, sync_vars, years_to_add, db, tx_writes, txn, batch_size,
                 dry_run, fetched, product_exp, pending_updates, bulk_calls,
                 updated_count, skipped_count, unchanged_count, processed_count>>

\* lines 188-191: no product has an expiry value
NoCandidates ==
  /\ handle_pc = "start"
  /\ years_to_add > 0 /\ batch_size > 0
  /\ QuerySet(db) = <<>>
  /\ handle_pc' = "done"
  /\ UNCHANGED <<calc_vars, sync_vars, years_to_add, db, tx_writes, txn, batch_size,
                 dry_run, fetched, product_exp, pending_updates, bulk_calls,
                 updated_count, skipped_count, unchanged_count, processed_count>>

\* lines 227-239: the iterator is made and the transaction entered
BeginLoop ==
  /\ handle_pc = "start"
  /\ years_to_add > 0 /\ batch_size > 0
  /\ QuerySet(db) # <<>>
  /\ fetched' = QuerySet(db)
  /\ product_exp' = [j \in DOMAIN QuerySet(db) |-> QuerySet(db)[j].exp]
  /\ txn' = "open"
  /\ handle_pc' = "loop"
  /\ UNCHANGED <<calc_vars, sync_vars, years_to_add, db, tx_writes, batch_size, dry_run,
                 pending_updates, bulk_calls, updated_count, skipped_count,
                 unchanged_count, processed_count>>

\* lines 240-269: one iteration of the loop, bulk_update (if called) returning
ProcessProduct ==
  /\ handle_pc = "loop"
  /\ processed_count < Len(fetched)
  /\ \E o \in {Outcome(product_exp[processed_count + 1], years_to_add)} :
     LET j == processed_count + 1
         staged == Append(pending_updates, [pk |-> fetched[j].pk, exp |-> o.new_exp])
     IN
       /\ processed_count' = j
       /\ skipped_count' = skipped_count + (IF o.kind = "skipped" THEN 1 ELSE 0)
       /\ unchanged_count' = unchanged_count + (IF o.kind = "unchanged" THEN 1 ELSE 0)
       /\ updated_count' = updated_count + (IF o.kind = "updated" THEN 1 ELSE 0)
       /\ IF o.kind = "updated" /\ Stages(dry_run)
          THEN /\ product_exp' = [product_exp EXCEPT ![j] = o.new_exp]
               /\ IF BatchFull(staged, batch_size)
                  THEN /\ tx_writes' = BulkUpdate(tx_writes, staged)
                       /\ bulk_calls' = Append(bulk_calls, staged)
                       /\ pending_updates' = <<>>
                  ELSE /\ pending_updates' = staged
                       /\ UNCHANGED <<tx_writes, bulk_calls>>
          ELSE UNCHANGED <<product_exp, pending_updates, tx_writes, bulk_calls>>
  /\ UNCHANGED <<calc_vars, sync_vars, years_to_add, db, txn, batch_size, dry_run,
                 fetched, handle_pc>>

\* lines 240-268 and 280-281: bulk_update raises (a database error) in an
\* iteration; the exception leaves the atomic block and becomes CommandError
ProcessProductRaise ==
  /\ handle_pc = "loop"
  /\ processed_count < Len(fetched)
  /\ \E o \in {Outcome(product_exp[processed_count + 1], years_to_add)} :
     LET j == processed_count + 1
         staged == Append(pending_updates, [pk |-> fetched[j].pk, exp |-> o.new_exp])
     IN
       /\ o.kind = "updated"
       /\ Stages(dry_run)
       /\ BatchFull(staged, batch_size)
       /\ processed_count' = j
       /\ updated_count' = updated_count + 1
       /\ product_exp' = [product_exp EXCEPT ![j] = o.new_exp]
       /\ pending_updates' = staged
       /\ db' = AtomicExit(db, tx_writes, TRUE, FALSE)
  /\ tx_writes' = <<>>
  /\ txn' = "rolled_back"
  /\ handle_pc' = "command_error"
  /\ UNCHANGED <<calc_vars, sync_vars, years_to_add, batch_size, dry_run, fetched,
                 bulk_calls, skipped_count, unchanged_count>>

\* lines 271-279 and the end of the atomic block: the rest is written, a dry
\* run sets the rollback flag, the transaction ends
Finish ==
  /\ handle_pc = "loop"
  /\ processed_count = Len(fetched)
  /\ LET flush == Stages(dry_run) /\ pending_updates # <<>>
         writes == IF flush THEN BulkUpdate(tx_writes, pending_updates)
                   ELSE tx_writes
     IN
       /\ bulk_calls' = IF flush THEN Append(bulk_calls, pending_updates)
                        ELSE bulk_calls
       /\ db' = AtomicExit(db, writes, FALSE, dry_run)
  /\ tx_writes' = <<>>
  /\ txn' = IF dry_run THEN "rolled_back" ELSE "committed"
  /\ handle_pc' = "done"
  /\ UNCHANGED <<calc_vars, sync_vars, years_to_add, batch_size, dry_run, fetched,
                 product_exp, pending_updates, updated_count, skipped_count,
                 unchanged_count, processed_count>>

\* lines 271-276 and 280-281: the last bulk_update raises
FinishRaise ==
  /\ handle_pc = "loop"
  /\ processed_count = Len(fetched)
  /\ Stages(dry_run)
  /\ pending_updates # <<>>
  /\ db' = AtomicExit(db, tx_writes, TRUE, FALSE)
  /\ tx_writes' = <<>>
  /\ txn' = "rolled_back"
  /\ handle_pc' = "command_error"
  /\ UNCHANGED <<calc_vars, sync_vars, years_to_add, batch_size, dry_run, fetched,
                 product_exp, pending_updates, bulk_calls, updated_count,
                 skipped_count, unchanged_count, processed_count>>

HandleNext ==
  \/ RejectOptions
  \/ NoCandidates
  \/ BeginLoop
  \/ ProcessProduct
  \/ ProcessProductRaise
  \/ Finish
  \/ FinishRaise

SpecHandle == HandleInit /\ [][HandleNext]_vars

-----------------------------------------------------------------------------
(* Command.handle of sync_invoice_prices.py. The queryset has no order_by  *)
(* and every page is a query of its own, so a page holds the rows the      *)
(* database returns at that offset in whatever order it then produces.     *)

\* the Invoice table holds the rows 1..NumInvoices
NumInvoices == 2

\* line 89: invoices_to_update[:5]
ExamplesShown == 5

\* SQL NULL, Python None
NULL == "NULL"

\* Product.price of the product of an invoice
PriceValues == {NULL, "1.00"}

\* Invoice.received
ReceivedValues == {NULL, "1.00", "2.50"}

\* --batch-size is not validated by this command
SyncBatchSizes == (0 - 1)..MaxBatch

\* lines 36-39: the ids of the rows of the queryset
Selected(prices, filter) ==
  {id \in DOMAIN prices : ~(filter /\ prices[id] = NULL)}

\* line 56: list(queryset[start:stop]), the rows a LIMIT/OFFSET query without
\* ORDER BY may return: stop - start rows (fewer at the end), each once
Slices(ids, start, stop) ==
  LET n == IF stop > Cardinality(ids) THEN Cardinality(ids) - start
           ELSE stop - start
  IN IF n <= 0 THEN {<<>>}
     ELSE {q \in [1..n -> ids] : \A i, j \in 1..n : i # j => q[i] # q[j]}

\* the model instance of a row, with select_related('product')
Instance(id, table, prices) ==
  [id |-> id, received |-> table[id], price |-> prices[id]]

\* line 75: invoice.received = product_price
SetReceived(invoice) == [invoice EXCEPT !.received = invoice.price]

\* lines 64-76: the for loop over a batch, as the list invoices_to_update
RECURSIVE InvoicesToUpdate(_, _, _, _)
InvoicesToUpdate(batch, table, prices, filter) ==
  IF batch = <<>> THEN <<>>
  ELSE LET invoice == Instance(Head(batch), table, prices)
           rest == InvoicesToUpdate(Tail(batch), table, prices, filter)
       IN IF invoice.price = NULL /\ filter THEN rest
          ELSE IF invoice.received # invoice.price
               THEN <<SetReceived(invoice)>> \o rest
               ELSE rest

\* lines 69-71: the invoices of a batch counted as skipped
SkippedIn(batch, prices, filter) ==
  Cardinality({i \in DOMAIN batch : prices[batch[i]] = NULL /\ filter})

\* lines 90-93: 'Would update Invoice {id}: received {received} -> {price}'
WouldUpdateLine(invoice) ==
  [id |-> invoice.id, received |-> invoice.received, price |-> invoice.price]

\* lines 89-93: the lines written for one batch
WouldUpdateLines(invoices_to_update) ==
  [i \in 1..(IF Len(invoices_to_update) > ExamplesShown THEN ExamplesShown
             ELSE Len(invoices_to_update)) |->
     WouldUpdateLine(invoices_to_update[i])]

\* lines 80-84: Invoice.objects.bulk_update(invoices_to_update, ['received'])
SyncBulkUpdate(table, invoices_to_update) ==
  [id \in DOMAIN table |->
     IF \E i \in DOMAIN invoices_to_update : invoices_to_update[i].id = id
     THEN invoices_to_update[
            CHOOSE i \in DOMAIN invoices_to_update :
              invoices_to_update[i].id = id].received
     ELSE table[id]]

\* the for loop took every invoice of the batch once more
Visit(counts, batch) ==
  [id \in DOMAIN counts |->
     counts[id] + Cardinality({i \in DOMAIN batch : batch[i] = id})]

SyncInit ==
  /\ price \in [1..NumInvoices -> PriceValues]
  /\ received \in [1..NumInvoices -> ReceivedValues]
  /\ received_before = received
  /\ sync_batch_size \in SyncBatchSizes
  /\ sync_dry_run \in BOOLEAN
  /\ filter_null_prices \in BOOLEAN
  /\ total_invoices = 0
  /\ sync_processed = 0
  /\ sync_updated = 0
  /\ sync_skipped = 0
  /\ visits = [id \in 1..NumInvoices |-> 0]
  /\ stdout = <<>>
  /\ sync_bulk_calls = <<>>
  /\ sync_pc = "start"
  /\ exp_value = <<>>
  /\ years_to_add = 0
  /\ new_exp = None
  /\ calc_pc = "idle"
  /\ runs = 0
  /\ HandleIdle

\* lines 41-46: no invoice in the queryset
SyncNoInvoices ==
  /\ sync_pc = "start"
  /\ Selected(price, filter_null_prices) = {}
  /\ sync_pc' = "done"
  /\ UNCHANGED <<calc_vars, years_to_add, handle_vars, price, received,
                 received_before, sync_batch_size, sync_dry_run,
                 filter_null_prices, total_invoices, sync_processed,
                 sync_updated, sync_skipped, visits, stdout, sync_bulk_calls>>

\* lines 41-53: count the queryset, open the transaction
SyncBegin ==
  /\ sync_pc = "start"
  /\ Selected(price, filter_null_prices) # {}
  /\ total_invoices' = Cardinality(Selected(price, filter_null_prices))
  /\ sync_pc' = "loop"
  /\ UNCHANGED <<calc_vars, years_to_add, handle_vars, price, received,
                 received_before, sync_batch_size, sync_dry_run,
                 filter_null_prices, sync_processed, sync_updated,
                 sync_skipped, visits, stdout, sync_bulk_calls>>

\* line 56 with a negative stop: the queryset refuses negative indexing, the
\* exception leaves the atomic block and the command
SyncSliceRaise ==
  /\ sync_pc = "loop"
  /\ sync_processed < total_invoices
  /\ sync_processed + sync_batch_size < 0
  /\ received' = received_before
  /\ sync_pc' = "error"
  /\ UNCHANGED <<calc_vars, years_to_add, handle_vars, price,
                 received_before, sync_batch_size, sync_dry_run,
                 filter_null_prices, total_invoices, sync_processed,
                 sync_updated, sync_skipped, visits, stdout, sync_bulk_calls>>

\* lines 54-97: one iteration of the while loop over a batch that is not empty
SyncBatch ==
  /\ sync_pc = "loop"
  /\ sync_processed < total_invoices
  /\ sync_processed + sync_batch_size >= 0
  /\ \E batch \in Slices(Selected(price, filter_null_prices), sync_processed,
                         sync_processed + sync_batch_size) :
       /\ batch # <<>>
       /\ \E invoices_to_update \in
              {InvoicesToUpdate(batch, received, price, filter_null_prices)} :
            /\ visits' = Visit(visits, batch)
            /\ sync_skipped' =
                 sync_skipped + SkippedIn(batch, price, filter_null_prices)
            /\ sync_updated' = sync_updated + Len(invoices_to_update)
            /\ IF invoices_to_update # <<>> /\ ~sync_dry_run
               THEN /\ received' = SyncBulkUpdate(received, invoices_to_update)
                    /\ sync_bulk_calls' =
                         Append(sync_bulk_calls, invoices_to_update)
                    /\ UNCHANGED stdout
               ELSE /\ stdout' = stdout \o WouldUpdateLines(invoices_to_update)
                    /\ UNCHANGED <<received, sync_bulk_calls>>
            /\ sync_processed' = sync_processed + Len(batch)
  /\ UNCHANGED <<calc_vars, years_to_add, handle_vars, price, received_before,
                 sync_batch_size, sync_dry_run, filter_null_prices,
                 total_invoices, sync_pc>>

\* lines 58-59 and 106-124: an empty batch breaks the loop; the transaction
\* commits and the summary is written
SyncBreak ==
  /\ sync_pc = "loop"
  /\ sync_processed < total_invoices
  /\ sync_processed + sync_batch_size >= 0
  /\ <<>> \in Slices(Selected(price, filter_null_prices), sync_processed,
                     sync_processed + sync_batch_size)
  /\ sync_pc' = "done"
  /\ UNCHANGED <<calc_vars, years_to_add, handle_vars, price, received,
                 received_before, sync_batch_size, sync_dry_run,
                 filter_null_prices, total_invoices, sync_processed,
                 sync_updated, sync_skipped, visits, stdout, sync_bulk_calls>>

\* lines 54 and 106-124: the while condition fails; the transaction commits
\* and the summary is written
SyncFinish ==
  /\ sync_pc = "loop"
  /\ sync_processed >= total_invoices
  /\ sync_pc' = "done"
  /\ UNCHANGED <<calc_vars, years_to_add, handle_vars, price, received,
                 received_before, sync_batch_size, sync_dry_run,
                 filter_null_prices, total_invoices, sync_processed,
                 sync_updated, sync_skipped, visits, stdout, sync_bulk_calls>>

SyncNext ==
  \/ SyncNoInvoices
  \/ SyncBegin
  \/ SyncSliceRaise
  \/ SyncBatch
  \/ SyncBreak
  \/ SyncFinish

SpecSync == SyncInit /\ [][SyncNext]_vars

-----------------------------------------------------------------------------
(* Vocabulary of the statements about _calculate_new_expiry. The fields of *)
(* an input are read off the regular expression that matches it, not off   *)
(* the value the function returns.                                         *)

Returned == calc_pc = "return"

Trimmed == strip(exp_value)

Output == new_exp.str

AsciiOf(c) == AsciiDigits[DigitVal(c) + 1]

AllAsciiDigits(s) == \A i \in 1..Len(s) : (\E k \in DOMAIN AsciiDigits : AsciiDigits[k] = s[i])

\* the month as the output renders it
NormalMonth(is_text, m) ==
  IF is_text
  THEN [i \in 1..Len(m) |-> IF i = 1 THEN UpperChar(m[i]) ELSE LowerChar(m[i])]
  ELSE IF Len(m) = 1 THEN <<"0", AsciiOf(m[1])>>
  ELSE <<AsciiOf(m[1]), AsciiOf(m[2])>>

\* rule i against s: whether its expression matches, whether the month token
\* names a month (a key of MONTH_MAP in any case, or a number in 1..12), and
\* the fields of s
Reading(i, s) ==
  LET re == EXP_PATTERNS[i].regex
      m == ReMatch(re, s)
      is_text == re.first.name = "month_text"
      month == IF is_text THEN m.groupdict["month_text"] ELSE m.groupdict["month"]
      valid == IF is_text THEN lower(month) \in MonthNames
               ELSE int(month) \in 1..12
  IN
    IF ~m.matched
    THEN [matched |-> FALSE, valid |-> FALSE]
    ELSE IF ~valid
    THEN [matched |-> TRUE, valid |-> FALSE]
    ELSE [matched |-> TRUE, valid |-> TRUE, rule |-> i, is_text |-> is_text,
          year_first |-> re.first.name = "year", separator |-> re.lit,
          month |-> month, normal_month |-> NormalMonth(is_text, month),
          year |-> m.groupdict["year"]]

Readings(s) == [i \in DOMAIN EXP_PATTERNS |-> Reading(i, s)]

Accepted(rs) == \E i \in DOMAIN rs : rs[i].valid

Rejected(rs) == \E i \in DOMAIN rs : rs[i].matched /\ ~rs[i].valid

\* the reading of the first rule that matches with a valid month
First(rs) ==
  rs[CHOOSE i \in DOMAIN rs : rs[i].valid /\ \A j \in 1..(i - 1) : ~rs[j].valid]

\* what is left of the output once month and separator are removed
OutYear(r, out) ==
  LET skip == Len(r.normal_month) + Len(r.separator) IN
    IF r.year_first THEN SubSeq(out, 1, Len(out) - skip)
    ELSE SubSeq(out, skip + 1, Len(out))

\* the new year fits the width of the year field
YearFits(r, k) ==
  Len(r.year) = 2 \/ (0 <= int(r.year) + k /\ int(r.year) + k <= 9999)

\* the positions of the year field in s
YearSpan(r, s) ==
  IF r.year_first THEN 1..Len(r.year) ELSE (Len(s) - Len(r.year) + 1)..Len(s)

\* out is s with other decimal digits in the year field
OnlyYearDigitsDiffer(r, s, out) ==
  /\ Len(out) = Len(s)
  /\ \A i \in 1..Len(s) :
       IF i \in YearSpan(r, s) THEN IsDecimal(out[i]) ELSE out[i] = s[i]

-----------------------------------------------------------------------------
\* C1 as stated: whenever a rule matches the input with a valid month, the
\* returned string differs from the trimmed input only in the digits of the
\* year (the month text, its digit width and capitalization included).
\* Stated for ASCII inputs and the offsets the command passes, --years > 0.
C1_AsStated ==
  (Returned /\ years_to_add > 0 /\ ARABIC_THREE \notin Range(exp_value)) =>
    LET rs == Readings(Trimmed) IN
      Accepted(rs) =>
        /\ ~new_exp.is_none
        /\ OnlyYearDigitsDiffer(First(rs), Trimmed, Output)

\* C1 amended: the returned string has the separator and the field order of
\* the input and the same month, re-rendered as two zero-padded ASCII digits
\* or as a word with a capital first letter and lower-case rest; the year
\* field keeps its width whenever the new year fits it (always for two
\* digits, 0..9999 for four). When the month of the input is already so
\* rendered and the new year fits, only the digits of the year differ.
C1_FormatMirrorsInput ==
  Returned =>
    LET rs == Readings(Trimmed) IN
      Accepted(rs) =>
        LET r == First(rs)
            year == OutYear(r, Output)
        IN
          /\ ~new_exp.is_none
          /\ Output = IF r.year_first
                      THEN year \o r.separator \o r.normal_month
                      ELSE r.normal_month \o r.separator \o year
          /\ YearFits(r, years_to_add) =>
               /\ Len(year) = Len(r.year)
               /\ AllAsciiDigits(year)
          /\ (YearFits(r, years_to_add) /\ r.month = r.normal_month) =>
               OnlyYearDigitsDiffer(r, Trimmed, Output)

\* a one-digit month comes back with two digits
C1_Witness ==
  /\ Returned
  /\ exp_value = <<"8","/","2","9">>
  /\ years_to_add = 3
  /\ new_exp = Some(<<"0","8","/","3","2">>)

-----------------------------------------------------------------------------
TwoDigits(n) == <<AsciiDigits[(n \div 10) + 1], AsciiDigits[(n % 10) + 1]>>

\* C2: for an input matched with a valid month by a rule with a 2-digit
\* year, and any offset, a string is returned whose year field is
\* (year + years_to_add) mod 100 as exactly two zero-padded decimal digits.
C2_TwoDigitYearWraps ==
  Returned =>
    LET rs == Readings(Trimmed) IN
      (Accepted(rs) /\ Len(First(rs).year) = 2) =>
        /\ ~new_exp.is_none
        /\ OutYear(First(rs), Output)
             = TwoDigits((int(First(rs).year) + years_to_add) % 100)

\* Dec-99 three years on is Dec-02
C2_Witness ==
  /\ Returned
  /\ exp_value = <<"D","e","c","-","9","9">>
  /\ years_to_add = 3
  /\ new_exp = Some(<<"D","e","c","-","0","2">>)

-----------------------------------------------------------------------------
\* s is the decimal numeral of n >= 0 zero-padded to width, and longer than
\* width only without a leading zero
IsZeroPadded(s, n, width) ==
  /\ AllAsciiDigits(s)
  /\ Len(s) >= width
  /\ int(s) = n
  /\ Len(s) > width => s[1] # "0"

\* C3 as stated: for an input matched by a rule with a 4-digit year, and any
\* offset, the year field of the output is year + years_to_add as exactly
\* four decimal digits. Stated for the offsets the command passes,
\* --years > 0.
C3_AsStated ==
  (Returned /\ years_to_add > 0) =>
    LET rs == Readings(Trimmed) IN
      (Accepted(rs) /\ Len(First(rs).year) = 4) =>
        LET year == OutYear(First(rs), Output) IN
          /\ ~new_exp.is_none
          /\ Len(year) = 4
          /\ AllAsciiDigits(year)
          /\ int(year) = int(First(rs).year) + years_to_add

\* C3 amended: the year field of the output is year + years_to_add, never
\* reduced, zero-padded to at least four characters: exactly four digits
\* when the sum is in 0..9999, all its digits when it is larger, and a
\* minus sign before the magnitude padded to three digits when it is
\* negative.
C3_FourDigitYearNoWrap ==
  Returned =>
    LET rs == Readings(Trimmed) IN
      (Accepted(rs) /\ Len(First(rs).year) = 4) =>
        LET year == OutYear(First(rs), Output)
            sum == int(First(rs).year) + years_to_add
        IN
          /\ ~new_exp.is_none
          /\ IF sum >= 0 THEN IsZeroPadded(year, sum, 4)
             ELSE /\ Len(year) >= 1
                  /\ year[1] = "-"
                  /\ IsZeroPadded(Tail(year), 0 - sum, 3)
          /\ (Len(year) = 4 /\ AllAsciiDigits(year)) <=> (0 <= sum /\ sum <= 9999)

\* August-2029 three years on is August-2032
C3_Witness ==
  /\ Returned
  /\ exp_value = <<"A","u","g","u","s","t","-","2","0","2","9">>
  /\ years_to_add = 3
  /\ new_exp = Some(<<"A","u","g","u","s","t","-","2","0","3","2">>)

-----------------------------------------------------------------------------
-----------------------------------------------------------------------------
\* C5: an input that a rule matches with a month token that names no month
\* (a number outside 1..12, or letters that are no key of MONTH_MAP) gives
\* None: no other rule accepts it.
C5_InvalidMonthIsNoMatch ==
  Returned => (Rejected(Readings(Trimmed)) => new_exp.is_none)

\* month 13 with the separator-less MMYY form
C5_Witness ==
  /\ Returned
  /\ exp_value = <<"1","3","2","9">>
  /\ new_exp.is_none

-----------------------------------------------------------------------------
\* C6: a month word of the vocabulary is recognized in any case, and the
\* output is that of the all-lower-case and of the all-upper-case spelling:
\* it opens with the same word, first letter upper case and the rest lower.
C6_TextMonthCapitalized ==
  Returned =>
    LET rs == Readings(Trimmed) IN
      (Accepted(rs) /\ First(rs).is_text) =>
        LET word == lower(First(rs).month)
            rest == SubSeq(Trimmed, Len(word) + 1, Len(Trimmed))
        IN
          /\ ~new_exp.is_none
          /\ SubSeq(Output, 1, Len(word)) = <<UpperChar(word[1])>> \o Tail(word)
          /\ Len(Output) > Len(word) /\ Output[Len(word) + 1] \in {"-", "/"}
          /\ new_exp = _calculate_new_expiry(word \o rest, years_to_add)
          /\ new_exp = _calculate_new_expiry(upper(word) \o rest, years_to_add)

\* AUGUST/29 three years on is August/32
C6_Witness ==
  /\ Returned
  /\ exp_value = <<"A","U","G","U","S","T","/","2","9">>
  /\ years_to_add = 3
  /\ new_exp = Some(<<"A","u","g","u","s","t","/","3","2">>)

-----------------------------------------------------------------------------
\* s without the whitespace before its first and after its last other
\* character
Unpadded(s) ==
  LET solid == {i \in 1..Len(s) : s[i] \notin Whitespace} IN
    IF solid = {} THEN <<>>
    ELSE SubSeq(s, CHOOSE i \in solid : \A j \in solid : i <= j,
                   CHOOSE i \in solid : \A j \in solid : j <= i)

\* C7: whitespace before or after the input does not change the result: an
\* input gives what it gives without its surrounding whitespace and what it
\* gives with more of it, and an empty or whitespace-only input gives None.
\* (Where Python would raise, an operator of this module is undefined and
\* TLC stops.)
C7_WhitespaceIgnored ==
  Returned =>
    /\ new_exp = _calculate_new_expiry(Unpadded(exp_value), years_to_add)
    /\ new_exp = _calculate_new_expiry(<<"\t">> \o exp_value \o <<" ", "\n">>,
                                       years_to_add)
    /\ (\A i \in 1..Len(exp_value) : exp_value[i] \in Whitespace) => new_exp.is_none

\* a padded input gives what the bare input gives
C7_Witness ==
  /\ Returned
  /\ exp_value = <<" ","0","8","/","2","9"," ">>
  /\ years_to_add = 3
  /\ new_exp = Some(<<"0","8","/","3","2">>)

-----------------------------------------------------------------------------
(* Vocabulary of the statements about Command.handle                       *)

\* the loop was entered
Looped == txn # "none"

\* the outcome the record read as exp is to have: skipped when the
\* normalizer gives None for it, unchanged when it gives the stripped
\* original, updated otherwise
Expected(exp) ==
  LET new == _calculate_new_expiry(exp, years_to_add) IN
    IF new.is_none THEN [kind |-> "skipped", exp |-> exp]
    ELSE IF new.str = Unpadded(exp) THEN [kind |-> "unchanged", exp |-> exp]
    ELSE [kind |-> "updated", exp |-> new.str]

\* how many of the first n fetched records are to have outcome kind
CountOf(kind, n) ==
  Cardinality({j \in 1..n : Expected(fetched[j].exp).kind = kind})

\* the record at position j is as it was read, in memory and in the database
Untouched(j) ==
  /\ product_exp[j] = fetched[j].exp
  /\ fetched[j].pk \notin DOMAIN tx_writes
  /\ db[fetched[j].pk] = Some(fetched[j].exp)

-----------------------------------------------------------------------------
\* C8: after every iteration each processed record has been counted in
\* exactly one of skipped, unchanged and updated, as its value decides, so
\* processed_count is the sum of the three; and a record's exp is modified
\* only if it is a processed record with outcome updated.
C8_OutcomesPartition ==
  Looped =>
    /\ processed_count = skipped_count + unchanged_count + updated_count
    /\ processed_count <= Len(fetched)
    /\ skipped_count = CountOf("skipped", processed_count)
    /\ unchanged_count = CountOf("unchanged", processed_count)
    /\ updated_count = CountOf("updated", processed_count)
    /\ \A j \in DOMAIN fetched :
         ~Untouched(j) =>
           /\ j <= processed_count
           /\ Expected(fetched[j].exp).kind = "updated"

\* a run that met one record of each outcome
C8_Witness ==
  /\ handle_pc = "done"
  /\ ~dry_run
  /\ skipped_count = 1
  /\ unchanged_count = 1
  /\ updated_count = 1

-----------------------------------------------------------------------------
\* C9 as stated: whatever fails for one record, a run that entered the loop
\* ends with every candidate processed and with the records it wrote
\* persisted.
C9_AsStated ==
  (Looped /\ ~dry_run /\ handle_pc \in {"done", "command_error"}) =>
    /\ processed_count = Len(fetched)
    /\ \A c \in DOMAIN bulk_calls : \A i \in DOMAIN bulk_calls[c] :
         db[bulk_calls[c][i].pk] = Some(bulk_calls[c][i].exp)

\* C9 amended: an unparseable record does not abort the run: it is skipped
\* and left as it is, and a run that completes has processed every candidate
\* and persisted the new value of every updated one. A run ends in
\* CommandError only when a write (bulk_update) raised, and then the
\* remaining candidates are not looked at and every row is as it was.
C9_SkipsButAbortsOnError ==
  /\ (Looped /\ handle_pc = "done") =>
       /\ processed_count = Len(fetched)
       /\ ~dry_run =>
            /\ txn = "committed"
            /\ \A j \in DOMAIN fetched :
                 db[fetched[j].pk] = Some(Expected(fetched[j].exp).exp)
  /\ (Looped /\ handle_pc = "command_error") =>
       /\ ~dry_run
       /\ pending_updates # <<>>
       /\ txn = "rolled_back"
       /\ \A j \in DOMAIN fetched : db[fetched[j].pk] = Some(fetched[j].exp)

\* a run skipped a record and persisted the two it updated
C9_Witness ==
  /\ handle_pc = "done"
  /\ txn = "committed"
  /\ skipped_count = 1
  /\ updated_count = 2
  /\ Expected(fetched[1].exp).kind = "skipped"

-----------------------------------------------------------------------------
\* C10: a dry run never calls bulk_update, modifies no exp in memory or in
\* the database, and ends rolled back; and the four counts a finished run
\* reports are decided by the data and --years alone, so a dry run reports
\* what a real run over the same data reports.
C10_DryRunChangesNothing ==
  /\ (Looped /\ dry_run) =>
       /\ bulk_calls = <<>>
       /\ pending_updates = <<>>
       /\ \A j \in DOMAIN fetched : Untouched(j)
       /\ \A pk \in DOMAIN db :
            (\A j \in DOMAIN fetched : fetched[j].pk # pk) =>
              (db[pk].is_none \/ db[pk].str = <<>>)
       /\ handle_pc # "command_error"
       /\ handle_pc = "done" => txn = "rolled_back"
  /\ (Looped /\ handle_pc = "done") =>
       /\ processed_count = Len(fetched)
       /\ skipped_count = CountOf("skipped", Len(fetched))
       /\ unchanged_count = CountOf("unchanged", Len(fetched))
       /\ updated_count = CountOf("updated", Len(fetched))

\* a dry run that counted two updates
C10_Witness ==
  /\ handle_pc = "done"
  /\ dry_run
  /\ txn = "rolled_back"
  /\ updated_count = 2
  /\ skipped_count = 1

-----------------------------------------------------------------------------
\* the rules whose regular expression matches s
Matching(s) ==
  {i \in DOMAIN EXP_PATTERNS : ReMatch(EXP_PATTERNS[i].regex, s).matched}

\* C14: the regular expressions of two different rules never match the same
\* string, and no rule taken alone gives a string other than the one the
\* function returned, so the function returns the same under every order of
\* EXP_PATTERNS.
C14_RulesMutuallyExclusive ==
  Returned =>
    /\ Cardinality(Matching(Trimmed)) <= 1
    /\ Trimmed # <<>> =>
         \A i \in DOMAIN EXP_PATTERNS :
           \A r \in {ApplyPattern(EXP_PATTERNS[i], Trimmed, years_to_add)} :
             r.is_none \/ r = new_exp
    /\ (Trimmed # <<>> /\ Matching(Trimmed) = {}) => new_exp.is_none

\* '2029-08', which rule 10 (year first) alone matches, was moved by 3 years
C14_Witness ==
  /\ Returned
  /\ exp_value = <<"2","0","2","9","-","0","8">>
  /\ years_to_add = 3
  /\ Matching(exp_value) = {10}
  /\ new_exp = Some(<<"2","0","3","2","-","0","8">>)

-----------------------------------------------------------------------------
\* C15: offsets add up. For an input s that a rule matches with a valid
\* month and an offset a >= 0 such that the year is 2-digit, or 4-digit with
\* year + a <= 9999, the string returned for (s, a) is matched by the same
\* rule as s, and moving it by b >= 0 gives what (s, a + b) gives.
C15_OffsetsCompose ==
  (Returned /\ years_to_add >= 0) =>
    LET rs == Readings(Trimmed) IN
      (Accepted(rs) /\ YearFits(First(rs), years_to_add)) =>
        /\ ~new_exp.is_none
        /\ LET again == Readings(Output) IN
             /\ Accepted(again)
             /\ First(again).rule = First(rs).rule
        /\ \A b \in 0..MaxOffset :
             _calculate_new_expiry(Output, b)
               = _calculate_new_expiry(exp_value, years_to_add + b)

\* 12/99 moved by 2 gave 12/01, which moved by 3 gives 12/04, as 12/99
\* moved by 5 does
C15_Witness ==
  /\ Returned
  /\ exp_value = <<"1","2","/","9","9">>
  /\ years_to_add = 2
  /\ new_exp = Some(<<"1","2","/","0","1">>)
  /\ _calculate_new_expiry(new_exp.str, 3) = Some(<<"1","2","/","0","4">>)
  /\ _calculate_new_expiry(exp_value, 5) = Some(<<"1","2","/","0","4">>)

-----------------------------------------------------------------------------
\* the object lists passed to bulk_update so far, one after the other
RECURSIVE Flatten(_)
Flatten(calls) ==
  IF calls = <<>> THEN <<>> ELSE Head(calls) \o Flatten(Tail(calls))

\* the records among the first n fetched that are to be updated, each with
\* the value it is to get, in the order they were read
RECURSIVE ToBeUpdated(_)
ToBeUpdated(n) ==
  IF n = 0 THEN <<>>
  ELSE LET e == Expected(fetched[n].exp) IN
         IF e.kind = "updated"
         THEN Append(ToBeUpdated(n - 1), [pk |-> fetched[n].pk, exp |-> e.exp])
         ELSE ToBeUpdated(n - 1)

\* C12: in a non-dry run the pending list never holds more than batch_size
\* records and is flushed as soon as it holds batch_size: every bulk_update
\* call gets at most batch_size records, every call before the end of the
\* loop exactly batch_size; the records passed so far followed by the
\* pending ones are the processed records classified as updated, each once
\* and with its new exp; when the run has completed, every one of them has
\* been passed, the remainder in one call after the loop.
C12_EachUpdateFlushedOnce ==
  (handle_pc \in {"loop", "done"} /\ ~dry_run) =>
    /\ Len(pending_updates) <= batch_size
    /\ \A c \in DOMAIN bulk_calls :
         /\ bulk_calls[c] # <<>>
         /\ Len(bulk_calls[c]) <= batch_size
         /\ (c < Len(bulk_calls) \/ handle_pc = "loop") =>
              Len(bulk_calls[c]) = batch_size
    /\ handle_pc = "loop" =>
         /\ Len(pending_updates) < batch_size
         /\ Flatten(bulk_calls) \o pending_updates
              = ToBeUpdated(processed_count)
    /\ handle_pc = "done" =>
         Flatten(bulk_calls) = ToBeUpdated(Len(fetched))

\* three records were updated with batch size 2: one call when the list was
\* full, one for the remainder after the loop
C12_Witness ==
  /\ handle_pc = "done"
  /\ ~dry_run
  /\ batch_size = 2
  /\ updated_count = 3
  /\ Len(bulk_calls) = 2
  /\ Len(bulk_calls[1]) = 2
  /\ Len(bulk_calls[2]) = 1

-----------------------------------------------------------------------------
(* Statements about Command.handle of sync_invoice_prices.py.              *)

\* the invoices of the queryset
SelectedInvoices == Selected(price, filter_null_prices)

\* the invoices whose received differed from the price at the start
DifferedBefore == {id \in SelectedInvoices : received_before[id] # price[id]}

\* C11: after a non-dry run with batch size >= 1 has completed, every invoice
\* of the queryset has received equal to its product's price, the loop took
\* each of them exactly once, and the updated count is the number of
\* invoices whose received differed from the price beforehand.
\* Stated for the tables where every product has a price.
C11_AsStated ==
  (/\ sync_pc = "done" /\ ~sync_dry_run /\ sync_batch_size >= 1
   /\ \A id \in DOMAIN price : price[id] # NULL) =>
    /\ \A id \in SelectedInvoices : received[id] = price[id]
    /\ \A id \in SelectedInvoices : visits[id] = 1
    /\ sync_updated = Cardinality(DifferedBefore)

\* C13: in a dry run every 'Would update Invoice' line shows the received
\* value the invoice had before the command and the product price it would
\* get, the two differ, and bulk_update is never called.
\* Stated for the tables where every product has a price.
C13_AsStated ==
  (sync_dry_run /\ \A id \in DOMAIN price : price[id] # NULL) =>
    /\ sync_bulk_calls = <<>>
    /\ \A i \in DOMAIN stdout :
         /\ stdout[i].received = received_before[stdout[i].id]
         /\ stdout[i].price = price[stdout[i].id]
         /\ stdout[i].received # stdout[i].price

=============================================================================
